---- MODULE Spec2Model ----
(***************************************************************************)
(* Polling / cooldown engine of the cursor-stats extension.                *)
(*                                                                         *)
(* The model follows src/src/extension.ts (activation, focus listener,     *)
(* commands, configuration listener, deactivation) and                     *)
(* src/src/utils/updateStats.ts (one polling cycle, split at its await     *)
(* points).  The module utils/cooldown.ts owns the error counter, the       *)
(* cooldown timestamp and the two intervals; both files import it, and its *)
(* operations are modelled from sections 3, 4.4 and 5 of the specification *)
(* and from the way the two files call them.                               *)
(***************************************************************************)
EXTENDS Integers, Sequences, FiniteSets, Bags, TLC

\* ------------------------------------------------------------------ bounds
\* Number of updateStats invocations that may be in flight at once.
MaxCycles == 2
\* Number of clock steps the model observes.
MaxTime == 2
\* Configured number of consecutive failures that starts a cooldown.
Threshold == 3

\* The error counter is followed up to one failure past the threshold.
MaxErrors == Threshold + 1

\* ------------------------------------------------------- program constants
\* TIME.COOLDOWN_DURATION, in milliseconds.
COOLDOWN_DURATION == 10 * 60 * 1000
\* Granularity of the modelled clock, in milliseconds.
TimeStep == COOLDOWN_DURATION
\* The value null of the cooldown start time (falsy, like every absent time).
Null == 0

Times == {k * TimeStep : k \in 1..MaxTime}

\* Outcomes of getCursorTokenFromDB.
TokenResults == {"token", "absent", "throws"}
\* Outcomes of fetchCursorStats: success, or an error carrying an HTTP status
\* (401, 403, any other status) or no response at all.
FetchResults == {"ok", "401", "403", "500", "noResponse"}
\* Outcomes of the steps after the fetch (tooltip, currency, rendering).
RenderResults == {"ok", "throws"}
\* What asked for a cycle.
Triggers == {"initial", "timer", "focus", "manual", "setLimit", "config"}
\* Settings handled by the configuration listener: the refresh interval, and
\* the display settings that each re-run updateStats.
Settings == {"refreshInterval", "display"}

VARIABLES
    cycles,                 \* the bag of updateStats invocations in flight
    consecutiveErrorCount,  \* cooldown module: _consecutiveErrorCount
    cooldownStartTime,      \* cooldown module: _cooldownStartTime (Null = absent)
    refreshInterval,        \* TRUE iff the refresh interval is armed
    countdownInterval,      \* TRUE iff the countdown display interval is armed
    isWindowFocused,        \* cooldown module: _isWindowFocused
    now,                    \* the clock (Date.now())
    activated,              \* FALSE once deactivate() has run
    initialPending,         \* the initial-update timeout has not fired yet
    display,                \* what the status bar item shows
    rejected,               \* TRUE iff some updateStats promise rejected
    calc,                   \* the data computation last carried out, with its inputs
    detectedUnknownModels,  \* updateStats.ts: the terms collected for the notification
    unknownModelNotificationShown,  \* updateStats.ts: the notification was shown
    notifications,          \* the unknown-models notifications shown, as batches of terms
    rendering               \* number of updateStats invocations in their item loop

\* The state of the polling engine, and the whole state.
pollVars == <<cycles, consecutiveErrorCount, cooldownStartTime, refreshInterval,
              countdownInterval, isWindowFocused, now, activated, initialPending,
              display, rejected>>

\* The state of the unknown-models notification.
notifyVars == <<detectedUnknownModels, unknownModelNotificationShown,
                notifications, rendering>>

vars == <<cycles, consecutiveErrorCount, cooldownStartTime, refreshInterval,
          countdownInterval, isWindowFocused, now, activated, initialPending,
          display, rejected, calc, detectedUnknownModels,
          unknownModelNotificationShown, notifications, rendering>>

\* The variable of updateStats whose value is the credential of the requests
\* awaited at position pc: the first fetch, the usage-based status check and
\* the requests of the rendering steps are passed token, the retry newToken;
\* a token lookup sends none.
Credential(pc) ==
    CASE pc \in {"fetch", "usage", "render"} -> "token"
      [] pc = "refetch" -> "newToken"
      [] OTHER -> "none"

\* Spending limits in dollars that the hard-limit endpoint may report.
UsageLimits == {7, 50}

\* The results of checkUsageBasedStatus; an absent limit is Null.
UsageStatuses == [isEnabled : BOOLEAN, limit : UsageLimits \cup {Null}]

\* What the two requests of checkUsageBasedStatus are answered with: the
\* status request with usageBasedPremiumRequests true or not, or with an
\* error; the hard-limit request with a valid body, whose hardLimit may be
\* absent, or with an error or a body of another structure.
UsageStatusRequests ==
    [status : {"enabled", "disabled", "fails"},
     limit : [ok : {TRUE}, hardLimit : UsageLimits \cup {Null}]
                 \cup {[ok |-> FALSE, hardLimit |-> Null]}]

\* getCurrentUsageLimit: the body of the response, or a rejection.
getCurrentUsageLimit(response) ==
    IF response.ok
    THEN [rejected |-> FALSE, hardLimit |-> response.hardLimit]
    ELSE [rejected |-> TRUE, hardLimit |-> Null]

\* Variant of the status check that throws the error of the hard-limit
\* request again.
checkUsageBasedStatusRethrows(requests) ==
    IF requests.status = "fails"
    THEN [rejected |-> FALSE, value |-> [isEnabled |-> FALSE, limit |-> Null]]
    ELSE LET limitResponse == getCurrentUsageLimit(requests.limit)
         IN  IF limitResponse.rejected
             THEN [rejected |-> TRUE, value |-> [isEnabled |-> FALSE, limit |-> Null]]
             ELSE [rejected |-> FALSE,
                   value |-> [isEnabled |-> requests.status = "enabled",
                              limit |-> limitResponse.hardLimit]]

\* checkUsageBasedStatus: the promise it returns, resolved with a value or
\* rejected. The catch block returns {isEnabled: false}.
checkUsageBasedStatus(requests) ==
    IF requests.status = "fails"
    THEN [rejected |-> FALSE, value |-> [isEnabled |-> FALSE, limit |-> Null]]
    ELSE LET limitResponse == getCurrentUsageLimit(requests.limit)
         IN  IF limitResponse.rejected
             THEN [rejected |-> FALSE, value |-> [isEnabled |-> FALSE, limit |-> Null]]
             ELSE [rejected |-> FALSE,
                   value |-> [isEnabled |-> requests.status = "enabled",
                              limit |-> limitResponse.hardLimit]]

\* One updateStats invocation: pc is the await it is suspended at, trigger the
\* caller (kept until the first await returns), attempts the number of stats
\* fetches issued, status the HTTP status that made it ask for a new token,
\* credential the variable its pending request takes the credential from.
Cycle(pc, trigger, attempts, status) ==
    [pc |-> pc, trigger |-> trigger, attempts |-> attempts, status |-> status,
     credential |-> Credential(pc)]

\* The invocations in flight, and how many they are.
Running == BagToSet(cycles)
InFlight == BagCardinality(cycles)

\* Invocation c moves on to position d / returns.
Continue(c, d) == cycles' = (cycles (-) SetToBag({c})) (+) SetToBag({d})
Return(c) == cycles' = cycles (-) SetToBag({c})

InCooldown == cooldownStartTime # Null

\* No data computation has been carried out yet.
NoCalc == [op |-> "none"]

\* ----------------------------------------------------------------- Init
\* The state when activate() has returned: the refresh interval was started
\* by finalizeExtensionSetup and the initial update is scheduled.
PollInit ==
    /\ cycles = EmptyBag
    /\ consecutiveErrorCount = 0
    /\ cooldownStartTime = Null
    /\ refreshInterval = TRUE
    /\ countdownInterval = FALSE
    /\ isWindowFocused = TRUE
    /\ now = TimeStep
    /\ activated = TRUE
    /\ initialPending = TRUE
    /\ display = "initial"
    /\ rejected = FALSE

\* The module-level state of updateStats.ts when the module is loaded.
NotifyInit ==
    /\ detectedUnknownModels = {}
    /\ unknownModelNotificationShown = FALSE
    /\ notifications = <<>>
    /\ rendering = 0

Init == PollInit /\ calc = NoCalc /\ NotifyInit

\* ------------------------------------------------ cooldown module (spec)
\* startRefreshInterval(): drop the running refresh interval and arm a new
\* one; the timer stays paused while the window is unfocused.
startRefreshInterval == refreshInterval' = isWindowFocused'

\* startCountdownDisplay(): arm the once-per-second countdown display.
startCountdownDisplay == countdownInterval' = TRUE

\* clearAllIntervals(): stop the refresh interval and the countdown display.
clearAllIntervals == refreshInterval' = FALSE /\ countdownInterval' = FALSE

\* incrementConsecutiveErrorCount(): count one more failure; when the count
\* reaches the threshold the controller enters Cooldown: it records the
\* start time, suspends polling and shows the countdown.
incrementConsecutiveErrorCount ==
    /\ consecutiveErrorCount' = consecutiveErrorCount + 1
    /\ IF consecutiveErrorCount + 1 >= Threshold /\ cooldownStartTime = Null
       THEN /\ cooldownStartTime' = now
            /\ refreshInterval' = FALSE
            /\ countdownInterval' = TRUE
       ELSE UNCHANGED <<cooldownStartTime, refreshInterval, countdownInterval>>

\* ------------------------------------------------------------ updateStats
\* updateStats(statusBarItem) up to its first await (the token lookup).
updateStats(trigger) ==
    /\ InFlight < MaxCycles
    /\ cycles' = cycles (+) SetToBag({Cycle("token", trigger, 0, "none")})

\* Variant of the catch block that starts the cooldown at every failure.
CatchBlockStartsCooldown ==
    /\ consecutiveErrorCount' = consecutiveErrorCount + 1
    /\ cooldownStartTime' = now
    /\ refreshInterval' = FALSE
    /\ countdownInterval' = TRUE
    /\ UNCHANGED <<display, rejected>>

\* Variant of the catch block that counts the failure and throws it again.
CatchBlockRethrows ==
    /\ incrementConsecutiveErrorCount
    /\ rejected' = TRUE
    /\ UNCHANGED display

\* The catch block of updateStats: the failure is counted and logged; the
\* promise resolves.
CatchBlock ==
    /\ incrementConsecutiveErrorCount
    /\ UNCHANGED <<display, rejected>>

\* A cycle that ends by raising: control reaches the catch block.
CycleFails(c) ==
    /\ consecutiveErrorCount < MaxErrors
    /\ Return(c)
    /\ UNCHANGED isWindowFocused
    /\ CatchBlock

\* Variant of the reset that clears the cooldown without restarting the
\* refresh interval.
ResetErrorStateNoRestart ==
    /\ consecutiveErrorCount' = 0
    /\ cooldownStartTime' = Null
    /\ UNCHANGED refreshInterval

\* Variant of the reset that clears the counter and lets the cooldown run out.
ResetErrorStateKeepsCooldown ==
    /\ consecutiveErrorCount' = 0
    /\ UNCHANGED <<cooldownStartTime, refreshInterval>>

\* "Reset error count on successful fetch".
ResetErrorState ==
    IF consecutiveErrorCount > 0 \/ cooldownStartTime # Null
    THEN /\ consecutiveErrorCount' = 0
         /\ IF cooldownStartTime # Null
            THEN /\ cooldownStartTime' = Null
                 /\ startRefreshInterval
            ELSE UNCHANGED <<cooldownStartTime, refreshInterval>>
    ELSE UNCHANGED <<consecutiveErrorCount, cooldownStartTime, refreshInterval>>

\* The stats fetch resolved: the error state is reset and the cycle goes on
\* to the usage-based status check.
FetchSucceeds(c) ==
    /\ Continue(c, Cycle("usage", "none", c.attempts, c.status))
    /\ UNCHANGED isWindowFocused
    /\ ResetErrorState
    /\ UNCHANGED <<countdownInterval, display, rejected>>

\* Variant of the token lookup in which an absent token is counted as a
\* failure.
TokenReturnsAbsentFails(c, res) ==
    /\ c.pc = "token"
    /\ IF res = "token"
       THEN /\ Continue(c, Cycle("fetch", "none", 1, "none"))
            /\ UNCHANGED <<consecutiveErrorCount, cooldownStartTime, refreshInterval,
                           countdownInterval, isWindowFocused, display, rejected>>
       ELSE CycleFails(c)
    /\ UNCHANGED <<now, activated, initialPending>>
    /\ UNCHANGED <<calc, notifyVars>>

\* await getCursorTokenFromDB() at the top of the cycle.
TokenReturns(c, res) ==
    /\ c.pc = "token"
    /\ CASE res = "token" ->
              /\ Continue(c, Cycle("fetch", "none", 1, "none"))
              /\ UNCHANGED <<consecutiveErrorCount, cooldownStartTime, refreshInterval,
                             countdownInterval, isWindowFocused, display, rejected>>
         [] res = "absent" ->
              /\ Return(c)
              /\ display' = "noToken"
              /\ UNCHANGED <<consecutiveErrorCount, cooldownStartTime, refreshInterval,
                             countdownInterval, isWindowFocused, rejected>>
         [] res = "throws" -> CycleFails(c)
    /\ UNCHANGED <<now, activated, initialPending>>
    /\ UNCHANGED <<calc, notifyVars>>

\* Variant of the first attempt that asks for a new token after any error.
FetchReturnsRetriesAnyError(c, res) ==
    /\ c.pc = "fetch"
    /\ IF res = "ok"
       THEN FetchSucceeds(c)
       ELSE /\ Continue(c, Cycle("retoken", "none", c.attempts, res))
            /\ UNCHANGED <<consecutiveErrorCount, cooldownStartTime, refreshInterval,
                           countdownInterval, isWindowFocused, display, rejected>>
    /\ UNCHANGED <<now, activated, initialPending>>
    /\ UNCHANGED <<calc, notifyVars>>

\* await fetchCursorStats(token): the first attempt.
FetchReturns(c, res) ==
    /\ c.pc = "fetch"
    /\ CASE res = "ok" -> FetchSucceeds(c)
         [] res \in {"401", "403"} ->
              /\ Continue(c, Cycle("retoken", "none", c.attempts, res))
              /\ UNCHANGED <<consecutiveErrorCount, cooldownStartTime, refreshInterval,
                             countdownInterval, isWindowFocused, display, rejected>>
         [] OTHER -> CycleFails(c)
    /\ UNCHANGED <<now, activated, initialPending>>
    /\ UNCHANGED <<calc, notifyVars>>

\* await getCursorTokenFromDB() inside the fetch's error handler.
RetokenReturns(c, res) ==
    /\ c.pc = "retoken"
    /\ CASE res = "token" ->
              /\ Continue(c, Cycle("refetch", "none", c.attempts + 1, c.status))
              /\ UNCHANGED <<consecutiveErrorCount, cooldownStartTime, refreshInterval,
                             countdownInterval, isWindowFocused, display, rejected>>
         [] OTHER -> CycleFails(c)
    /\ UNCHANGED <<now, activated, initialPending>>
    /\ UNCHANGED <<calc, notifyVars>>

\* Variant of the retry whose failure is counted once for each of the two
\* failed fetches.
RefetchReturnsCountsBoth(c, res) ==
    /\ c.pc = "refetch"
    /\ IF res = "ok"
       THEN FetchSucceeds(c)
       ELSE /\ consecutiveErrorCount + 2 <= MaxErrors
            /\ Return(c)
            /\ consecutiveErrorCount' = consecutiveErrorCount + 2
            /\ UNCHANGED <<cooldownStartTime, refreshInterval, countdownInterval,
                           isWindowFocused, display, rejected>>
    /\ UNCHANGED <<now, activated, initialPending>>
    /\ UNCHANGED <<calc, notifyVars>>

\* await fetchCursorStats(newToken): the retry.
RefetchReturns(c, res) ==
    /\ c.pc = "refetch"
    /\ IF res = "ok" THEN FetchSucceeds(c) ELSE CycleFails(c)
    /\ UNCHANGED <<now, activated, initialPending>>
    /\ UNCHANGED <<calc, notifyVars>>

\* await checkUsageBasedStatus(token, teamId).
UsageStatusReturns(c, requests) ==
    /\ c.pc = "usage"
    /\ LET usageStatus == checkUsageBasedStatus(requests)
       IN  IF usageStatus.rejected
           THEN CycleFails(c)
           ELSE /\ Continue(c, Cycle("render", "none", c.attempts, c.status))
                /\ UNCHANGED <<consecutiveErrorCount, cooldownStartTime,
                               refreshInterval, countdownInterval, isWindowFocused,
                               display, rejected>>
    /\ UNCHANGED <<now, activated, initialPending>>
    /\ UNCHANGED <<calc, notifyVars>>

\* The rest of the cycle: percentages, tooltip, currency conversion, status
\* bar text.
RenderReturns(c, res) ==
    /\ c.pc = "render"
    /\ IF res = "ok"
       THEN /\ Return(c)
            /\ display' = "stats"
            /\ UNCHANGED <<consecutiveErrorCount, cooldownStartTime, refreshInterval,
                           countdownInterval, isWindowFocused, rejected>>
       ELSE CycleFails(c)
    /\ UNCHANGED <<now, activated, initialPending>>
    /\ UNCHANGED <<calc, notifyVars>>

\* -------------------------------------------------------------- triggers
\* The callback of the refresh interval: it polls unless the controller is
\* in Cooldown.
RefreshTimerTick ==
    /\ refreshInterval
    /\ cooldownStartTime = Null
    /\ updateStats("timer")
    /\ UNCHANGED <<consecutiveErrorCount, cooldownStartTime, refreshInterval,
                   countdownInterval, isWindowFocused, now, activated,
                   initialPending, display, rejected>>
    /\ UNCHANGED <<calc, notifyVars>>

\* The timeout set by finalizeExtensionSetup: the initial update.
InitialUpdate ==
    /\ initialPending
    /\ initialPending' = FALSE
    /\ updateStats("initial")
    /\ UNCHANGED <<consecutiveErrorCount, cooldownStartTime, refreshInterval,
                   countdownInterval, isWindowFocused, now, activated,
                   display, rejected>>
    /\ UNCHANGED <<calc, notifyVars>>

\* Variant of the focus listener that polls on refocus without looking at
\* the cooldown.
onDidChangeWindowStateIgnoresCooldown(focused) ==
    /\ activated
    /\ isWindowFocused' = focused
    /\ IF focused
       THEN /\ updateStats("focus")
            /\ startRefreshInterval
            /\ UNCHANGED countdownInterval
       ELSE /\ clearAllIntervals
            /\ UNCHANGED cycles
    /\ UNCHANGED <<consecutiveErrorCount, cooldownStartTime, now, activated,
                   initialPending, display, rejected>>
    /\ UNCHANGED <<calc, notifyVars>>

\* Variant of the focus listener that does not resume the countdown display
\* on a refocus during a cooldown.
onDidChangeWindowStateNoCountdown(focused) ==
    /\ activated
    /\ isWindowFocused' = focused
    /\ IF focused
       THEN IF cooldownStartTime # Null
            THEN UNCHANGED <<cycles, refreshInterval, countdownInterval>>
            ELSE /\ updateStats("focus")
                 /\ startRefreshInterval
                 /\ UNCHANGED countdownInterval
       ELSE /\ clearAllIntervals
            /\ UNCHANGED cycles
    /\ UNCHANGED <<consecutiveErrorCount, cooldownStartTime, now, activated,
                   initialPending, display, rejected>>
    /\ UNCHANGED <<calc, notifyVars>>

\* Variant of the focus listener that leaves the intervals running when the
\* window loses focus.
onDidChangeWindowStateKeepsIntervals(focused) ==
    /\ activated
    /\ isWindowFocused' = focused
    /\ IF focused
       THEN IF cooldownStartTime # Null
            THEN /\ startCountdownDisplay
                 /\ UNCHANGED <<cycles, refreshInterval>>
            ELSE /\ updateStats("focus")
                 /\ startRefreshInterval
                 /\ UNCHANGED countdownInterval
       ELSE UNCHANGED <<cycles, refreshInterval, countdownInterval>>
    /\ UNCHANGED <<consecutiveErrorCount, cooldownStartTime, now, activated,
                   initialPending, display, rejected>>
    /\ UNCHANGED <<calc, notifyVars>>

\* The listener of vscode.window.onDidChangeWindowState.
onDidChangeWindowState(focused) ==
    /\ activated
    /\ isWindowFocused' = focused
    /\ IF focused
       THEN IF cooldownStartTime # Null
            THEN /\ startCountdownDisplay
                 /\ UNCHANGED <<cycles, refreshInterval>>
            ELSE /\ updateStats("focus")
                 /\ startRefreshInterval
                 /\ UNCHANGED countdownInterval
       ELSE /\ clearAllIntervals
            /\ UNCHANGED cycles
    /\ UNCHANGED <<consecutiveErrorCount, cooldownStartTime, now, activated,
                   initialPending, display, rejected>>
    /\ UNCHANGED <<calc, notifyVars>>

\* The command cursor-stats.refreshStats.
refreshCommand ==
    /\ activated
    /\ updateStats("manual")
    /\ UNCHANGED <<consecutiveErrorCount, cooldownStartTime, refreshInterval,
                   countdownInterval, isWindowFocused, now, activated,
                   initialPending, display, rejected>>
    /\ UNCHANGED <<calc, notifyVars>>

\* The command cursor-stats.setLimit, on a branch that changed the limit:
\* handleSetLimitAction ends with updateStats.
setLimitCommand ==
    /\ activated
    /\ updateStats("setLimit")
    /\ UNCHANGED <<consecutiveErrorCount, cooldownStartTime, refreshInterval,
                   countdownInterval, isWindowFocused, now, activated,
                   initialPending, display, rejected>>
    /\ UNCHANGED <<calc, notifyVars>>

\* Variant of the configuration listener that arms the refresh interval
\* itself when the refresh interval setting changes.
onDidChangeConfigurationArmsTimer(setting) ==
    /\ activated
    /\ UNCHANGED isWindowFocused
    /\ IF setting = "refreshInterval"
       THEN /\ refreshInterval' = TRUE
            /\ UNCHANGED cycles
       ELSE /\ updateStats("config")
            /\ UNCHANGED refreshInterval
    /\ UNCHANGED <<consecutiveErrorCount, cooldownStartTime, countdownInterval,
                   now, activated, initialPending, display, rejected>>
    /\ UNCHANGED <<calc, notifyVars>>

\* The listener of vscode.workspace.onDidChangeConfiguration, for a change
\* of one setting.
onDidChangeConfiguration(setting) ==
    /\ activated
    /\ UNCHANGED isWindowFocused
    /\ IF setting = "refreshInterval"
       THEN /\ startRefreshInterval
            /\ UNCHANGED cycles
       ELSE /\ updateStats("config")
            /\ UNCHANGED refreshInterval
    /\ UNCHANGED <<consecutiveErrorCount, cooldownStartTime, countdownInterval,
                   now, activated, initialPending, display, rejected>>
    /\ UNCHANGED <<calc, notifyVars>>

\* The callback of the countdown display interval: it shows the remaining
\* time, and once the cooldown duration has elapsed it leaves Cooldown.
CountdownTick ==
    /\ countdownInterval
    /\ UNCHANGED isWindowFocused
    /\ IF cooldownStartTime = Null
       THEN /\ countdownInterval' = FALSE
            /\ UNCHANGED <<consecutiveErrorCount, cooldownStartTime,
                           refreshInterval, display>>
       ELSE IF now - cooldownStartTime >= COOLDOWN_DURATION
            THEN /\ countdownInterval' = FALSE
                 /\ cooldownStartTime' = Null
                 /\ consecutiveErrorCount' = 0
                 /\ startRefreshInterval
                 /\ UNCHANGED display
            ELSE /\ display' = "countdown"
                 /\ UNCHANGED <<consecutiveErrorCount, cooldownStartTime,
                                refreshInterval, countdownInterval>>
    /\ UNCHANGED <<cycles, now, activated, initialPending, rejected>>
    /\ UNCHANGED <<calc, notifyVars>>

\* deactivate(): explicit shutdown.
deactivate ==
    /\ activated
    /\ activated' = FALSE
    /\ clearAllIntervals
    /\ UNCHANGED <<cycles, consecutiveErrorCount, cooldownStartTime,
                   isWindowFocused, now, initialPending, display, rejected>>
    /\ UNCHANGED <<calc, notifyVars>>

\* The clock advances.
AdvanceTime ==
    /\ now < MaxTime * TimeStep
    /\ now' = now + TimeStep
    /\ UNCHANGED <<cycles, consecutiveErrorCount, cooldownStartTime,
                   refreshInterval, countdownInterval, isWindowFocused,
                   activated, initialPending, display, rejected>>
    /\ UNCHANGED <<calc, notifyVars>>

\* --------------------------------------------------------- specification
CycleStep ==
    \E c \in Running :
        \/ \E res \in TokenResults : TokenReturns(c, res)
        \/ \E res \in FetchResults : FetchReturns(c, res)
        \/ \E res \in TokenResults : RetokenReturns(c, res)
        \/ \E res \in FetchResults : RefetchReturns(c, res)
        \/ \E requests \in UsageStatusRequests : UsageStatusReturns(c, requests)
        \/ \E res \in RenderResults : RenderReturns(c, res)

Next ==
    \/ RefreshTimerTick
    \/ InitialUpdate
    \/ \E focused \in BOOLEAN : onDidChangeWindowState(focused)
    \/ refreshCommand
    \/ setLimitCommand
    \/ \E setting \in Settings : onDidChangeConfiguration(setting)
    \/ CountdownTick
    \/ deactivate
    \/ AdvanceTime
    \/ CycleStep

Spec == Init /\ [][Next]_vars

TypeOK ==
    /\ IsABag(cycles)
    /\ InFlight <= MaxCycles
    /\ Running \subseteq [pc : {"token", "fetch", "retoken", "refetch", "usage", "render"},
                          trigger : Triggers \cup {"none"},
                          attempts : 0..2,
                          status : {"none", "401", "403"},
                          credential : {"none", "token", "newToken"}]
    /\ consecutiveErrorCount \in 0..MaxErrors
    /\ cooldownStartTime \in Times \cup {Null}
    /\ refreshInterval \in BOOLEAN
    /\ countdownInterval \in BOOLEAN
    /\ isWindowFocused \in BOOLEAN
    /\ now \in Times
    /\ activated \in BOOLEAN
    /\ initialPending \in BOOLEAN
    /\ display \in {"initial", "stats", "noToken", "countdown"}
    /\ rejected \in BOOLEAN

\* Fairness: an armed countdown interval keeps firing, and every awaited
\* call of a cycle eventually resolves or rejects.
FairSpec == Spec /\ WF_vars(CountdownTick) /\ WF_vars(CycleStep)

\* ------------------------------------------------- observations of a step
\* Number of invocations in flight that are suspended at position pc.
AtStage(b, pc) ==
    BagCardinality([c \in {d \in BagToSet(b) : d.pc = pc} |-> b[c]])

\* A step that starts a cycle, and one that starts a cycle for this trigger.
CycleStarts == AtStage(cycles', "token") > AtStage(cycles, "token")
CycleStartsFor(trigger) ==
    CopiesIn(Cycle("token", trigger, 0, "none"), cycles')
        > CopiesIn(Cycle("token", trigger, 0, "none"), cycles)

\* A step in which a stats fetch (first attempt or retry) succeeds.
FetchSuccessStep == AtStage(cycles', "usage") > AtStage(cycles, "usage")

\* A step in which a cycle ends in the catch block.
CycleFailureStep ==
    /\ InFlight' = InFlight - 1
    /\ consecutiveErrorCount' = consecutiveErrorCount + 1

Elapsed == now - cooldownStartTime

\* ------------------------------------------------------------------ claims

\* C1: at most one updateStats cycle is in flight at any time, whatever the
\* interleaving of timer tick, refocus, manual refresh, configuration change
\* and set-limit command.
NoParallelCycles == InFlight <= 1

\* C2: counting failures from 0, the cooldown start time stays absent while
\* the count is below the threshold and is set to the current time by the
\* failure that brings the count to the threshold.
CooldownEntry ==
    [][consecutiveErrorCount' = consecutiveErrorCount + 1 =>
          /\ (consecutiveErrorCount' < Threshold => cooldownStartTime' = Null)
          /\ (consecutiveErrorCount' = Threshold =>
                  cooldownStartTime = Null /\ cooldownStartTime' = now)]_vars

\* C2 witness: the threshold-th consecutive failure has just started a cooldown.
CooldownEntered ==
    /\ consecutiveErrorCount = Threshold
    /\ cooldownStartTime = now
    /\ InFlight = 0

RetryInv ==
    \A c \in Running :
        /\ c.attempts <= 2
        /\ (c.attempts = 2 => c.status \in {"401", "403"})
        /\ (c.pc \in {"retoken", "refetch"} => c.status \in {"401", "403"})
        /\ (c.pc = "token" => c.attempts = 0)
        /\ (c.pc \in {"fetch", "retoken"} => c.attempts = 1)
        /\ (c.pc = "refetch" => c.attempts = 2)

RetryStep ==
    /\ AtStage(cycles', "refetch") > AtStage(cycles, "refetch")
          => AtStage(cycles', "retoken") < AtStage(cycles, "retoken")
    /\ AtStage(cycles', "retoken") > AtStage(cycles, "retoken")
          => AtStage(cycles', "fetch") < AtStage(cycles, "fetch")
    /\ AtStage(cycles', "refetch") < AtStage(cycles, "refetch")
          => FetchSuccessStep \/ CycleFailureStep
    /\ AtStage(cycles', "fetch") < AtStage(cycles, "fetch")
          => \/ FetchSuccessStep
             \/ CycleFailureStep
             \/ AtStage(cycles', "retoken") > AtStage(cycles, "retoken")

RetryPolicy == []RetryInv /\ [][RetryStep]_vars

\* C4 witness: a second attempt is in flight after a 403.
RetryInFlight ==
    \E c \in Running : c.pc = "refetch" /\ c.attempts = 2 /\ c.status = "403"

\* C5: no updateStats promise ever rejects; a cycle that ends in the catch
\* block leaves the extension activated, leaves the refresh interval as it
\* was unless the failure starts a cooldown, and a further cycle can be
\* started by the next trigger.
NoFatalStates ==
    /\ [](~rejected)
    /\ [](activated /\ InFlight < MaxCycles => ENABLED refreshCommand)
    /\ [][CycleFailureStep =>
             /\ activated' = activated
             /\ InFlight' < MaxCycles
             /\ (cooldownStartTime' = Null => refreshInterval' = refreshInterval)]_vars

\* C5 witness: after failed cycles, the timer has started a further cycle.
PollingAfterFailure ==
    /\ consecutiveErrorCount > 0
    /\ ~rejected
    /\ activated
    /\ CopiesIn(Cycle("token", "timer", 0, "none"), cycles) = InFlight
    /\ InFlight = 1

\* C6 (as stated): while the cooldown start time is set and the cooldown
\* duration has not elapsed, no trigger starts a polling cycle.
PollingSuspendedInCooldown ==
    [][InCooldown /\ Elapsed < COOLDOWN_DURATION => ~CycleStarts]_vars

\* C6 (amended): while the cooldown start time is set and the cooldown
\* duration has not elapsed, neither the refresh timer nor a window refocus
\* starts a polling cycle.
NoTimerOrFocusPollInCooldown ==
    [][InCooldown /\ Elapsed < COOLDOWN_DURATION =>
          ~CycleStartsFor("timer") /\ ~CycleStartsFor("focus")]_vars

\* C6 witness: during a cooldown the window is focused and the refresh
\* interval has been armed again (by a change of the refresh interval
\* setting).
TimerArmedInCooldown ==
    /\ InCooldown
    /\ Elapsed < COOLDOWN_DURATION
    /\ isWindowFocused
    /\ refreshInterval

\* Back in Active: no cooldown, no counted failure, and the refresh interval
\* running (it is paused while the window is unfocused).
ActiveAgain ==
    /\ cooldownStartTime = Null
    /\ consecutiveErrorCount = 0
    /\ (isWindowFocused => refreshInterval)

CooldownStateInvariant == InCooldown => consecutiveErrorCount >= Threshold

\* C8 witness: a fetch succeeded during a cooldown (its countdown interval is
\* still armed) and the cycle has moved on: counter and cooldown are both clear.
SuccessClearedBoth ==
    /\ cooldownStartTime = Null
    /\ consecutiveErrorCount = 0
    /\ countdownInterval
    /\ AtStage(cycles, "render") > 0

\* C9: a step that loses focus clears both intervals; a step that regains
\* focus during a cooldown arms the countdown display and starts no cycle
\* and no refresh interval; a step that regains focus otherwise starts a
\* cycle and arms the refresh interval.
FocusTransitions ==
    [][/\ (isWindowFocused /\ ~isWindowFocused')
             => (~refreshInterval' /\ ~countdownInterval')
       /\ (~isWindowFocused /\ isWindowFocused')
             => IF InCooldown
                THEN /\ countdownInterval'
                     /\ cycles' = cycles
                     /\ ~refreshInterval'
                ELSE /\ CycleStartsFor("focus")
                     /\ InFlight' = InFlight + 1
                     /\ refreshInterval'
                     /\ countdownInterval' = countdownInterval]_vars

\* C9 witness: the window was refocused outside Cooldown: the poll it started
\* is in flight and the refresh interval is armed.
RefocusPolled ==
    /\ isWindowFocused
    /\ ~InCooldown
    /\ refreshInterval
    /\ CopiesIn(Cycle("token", "focus", 0, "none"), cycles) > 0

FailureShownAsDegraded ==
    [][CycleFailureStep => display' # "stats"]_vars

\* =================================================================== data
\* The data path of one cycle: fetchCursorStats and fetchMonthData (api.ts),
\* the percentage formatter, and the computations of updateStats between the
\* fetch and the status bar update.  Each function is an operator; the
\* actions further down apply them to inputs drawn from bounded sets and
\* record inputs and results in calc.

\* ------------------------------------------------------------------ bounds
\* Largest premium request count and largest premium request limit.
MaxRequests == 201
MaxLimit == 201

\* --------------------------------------------------------------- numbers
\* A JavaScript number of the percentage computations: a fraction n/d with
\* d > 0, or one of the two results of a division by zero.  null in
\* arithmetic is 0.
Number(n, d) == [kind |-> "finite", n |-> n, d |-> d]
NaN == [kind |-> "NaN"]
Infinity == [kind |-> "Infinity"]

IsFinite(x) == x.kind = "finite"
IsInteger(x) == IsFinite(x) /\ x.n % x.d = 0
\* Numeric equality and order of finite numbers.
NumEq(x, y) == x.n * y.d = y.n * x.d
NumLess(x, y) == x.n * y.d < y.n * x.d

Abs(i) == IF i < 0 THEN -i ELSE i

RECURSIVE Pow10(_)
Pow10(k) == IF k = 0 THEN 1 ELSE 10 * Pow10(k - 1)

\* a / b for integers a >= 0 and b.
Divide(a, b) ==
    IF b = 0
    THEN IF a = 0 THEN NaN ELSE Infinity
    ELSE IF b < 0 THEN Number(-a, -b) ELSE Number(a, b)

\* x * k and k - x for an integer k.
Multiply(x, k) == IF IsFinite(x) THEN Number(x.n * k, x.d) ELSE x
MinusFrom(k, x) == IF IsFinite(x) THEN Number(k * x.d - x.n, x.d) ELSE x

\* Math.floor, Math.round (half-way cases go up), Math.max, Math.min.
MathFloor(x) == IF IsFinite(x) THEN Number(x.n \div x.d, 1) ELSE x
MathRound(x) == IF IsFinite(x) THEN Number((2 * x.n + x.d) \div (2 * x.d), 1) ELSE x
MathMax(x, y) == IF NumLess(x, y) THEN y ELSE x
MathMin(x, y) == IF NumLess(y, x) THEN y ELSE x

\* --------------------------------------------------------------- strings
\* A string is the sequence of its characters.
DigitChars == <<"0", "1", "2", "3", "4", "5", "6", "7", "8", "9">>

RECURSIVE NatToString(_)
NatToString(i) ==
    IF i < 10
    THEN <<DigitChars[i + 1]>>
    ELSE NatToString(i \div 10) \o <<DigitChars[(i % 10) + 1]>>

\* The k-digit rendering of i < 10^k, with leading zeros.
RECURSIVE FractionDigits(_, _)
FractionDigits(i, k) ==
    IF k = 0
    THEN <<>>
    ELSE FractionDigits(i \div 10, k - 1) \o <<DigitChars[(i % 10) + 1]>>

\* Number.prototype.toString() of an integer value.
toString(x) ==
    LET i == x.n \div x.d
    IN  IF i < 0 THEN <<"-">> \o NatToString(-i) ELSE NatToString(i)

\* Number.prototype.toFixed(k): the magnitude rounded to k decimals (of two
\* equally near candidates the larger), with the sign in front.
toFixed(x, k) ==
    LET m == (2 * Abs(x.n) * Pow10(k) + x.d) \div (2 * x.d)
        digits == NatToString(m \div Pow10(k))
                      \o (IF k = 0 THEN <<>> ELSE <<".">> \o FractionDigits(m % Pow10(k), k))
    IN  IF x.n < 0 THEN <<"-">> \o digits ELSE digits

\* The value of a digit character, and of a digit string.
DigitValue(c) == CHOOSE i \in 0..9 : DigitChars[i + 1] = c

RECURSIVE DigitsValue(_)
DigitsValue(s) ==
    IF s = <<>>
    THEN 0
    ELSE 10 * DigitsValue(SubSeq(s, 1, Len(s) - 1)) + DigitValue(s[Len(s)])

\* Position of the first "." of s, 0 if there is none.
DotAt(s) ==
    IF \E i \in 1..Len(s) : s[i] = "."
    THEN CHOOSE i \in 1..Len(s) : s[i] = "." /\ \A j \in 1..(i - 1) : s[j] # "."
    ELSE 0

\* parseFloat(s) of a decimal numeral: sign, integer digits, and the digits
\* after the point.
parseFloat(s) ==
    LET negative == s # <<>> /\ s[1] = "-"
        body == IF negative THEN Tail(s) ELSE s
        dot == DotAt(body)
        whole == IF dot = 0 THEN body ELSE SubSeq(body, 1, dot - 1)
        fraction == IF dot = 0 THEN <<>> ELSE SubSeq(body, dot + 1, Len(body))
        v == DigitsValue(whole \o fraction)
    IN  Number(IF negative THEN -v ELSE v, Pow10(Len(fraction)))

\* Number of "0" characters at the end of s.
RECURSIVE TrailingZeros(_)
TrailingZeros(s) ==
    IF s # <<>> /\ s[Len(s)] = "0"
    THEN 1 + TrailingZeros(SubSeq(s, 1, Len(s) - 1))
    ELSE 0

\* s.replace(/\.?0+$/, ''): the leftmost match is the whole run of zeros at
\* the end, together with a "." right before it.
StripTrailingZeros(s) ==
    LET z == TrailingZeros(s)
        start == Len(s) - z + 1
    IN  IF z = 0
        THEN s
        ELSE IF start > 1 /\ s[start - 1] = "."
             THEN SubSeq(s, 1, start - 2)
             ELSE SubSeq(s, 1, start - 1)

\* ----------------------------------------------------- percentageFormatter
\* Math.abs(rounded - percentage) < 1e-10, for rounded = r / 10^k.
WithinTolerance(r, k, percentage) ==
    Abs(r * percentage.d - percentage.n * Pow10(k))
        <= (((percentage.d * Pow10(k)) - 1) \div 100000) \div 100000

\* The loop of formatPercentageIntelligent from decimals on.
RECURSIVE FormatFrom(_, _, _)
FormatFrom(percentage, decimals, maxDecimals) ==
    IF decimals > maxDecimals
    THEN StripTrailingZeros(toFixed(percentage, maxDecimals))
    ELSE LET factor == Pow10(decimals)
             r == MathRound(Multiply(percentage, factor)).n
         IN  IF WithinTolerance(r, decimals, percentage)
             THEN StripTrailingZeros(toFixed(Number(r, factor), decimals))
             ELSE FormatFrom(percentage, decimals + 1, maxDecimals)

\* Variant that always renders a non-integer value with maxDecimals decimals.
formatPercentageIntelligentFixed(percentage, maxDecimals) ==
    IF NumEq(percentage, MathFloor(percentage))
    THEN toString(percentage)
    ELSE toFixed(percentage, maxDecimals)

\* formatPercentageIntelligent(percentage, maxDecimals).
formatPercentageIntelligent(percentage, maxDecimals) ==
    IF NumEq(percentage, MathFloor(percentage))
    THEN toString(percentage)
    ELSE FormatFrom(percentage, 1, maxDecimals)

\* Default value of the parameter maxDecimals.
DefaultMaxDecimals == 3

\* Variant without the clamp to [0, 100].
formatRemainingPercentageUnclamped(current, limit, maxDecimals) ==
    IF limit <= 0
    THEN <<"0">>
    ELSE formatPercentageIntelligent(
             MinusFrom(100, Multiply(Divide(current, limit), 100)), maxDecimals)

\* formatRemainingPercentage(current, limit, maxDecimals).
formatRemainingPercentage(current, limit, maxDecimals) ==
    IF limit <= 0
    THEN <<"0">>
    ELSE LET usedPercent == Multiply(Divide(current, limit), 100)
             remainingPercent ==
                 MathMax(Number(0, 1), MathMin(Number(100, 1), MinusFrom(100, usedPercent)))
         IN  formatPercentageIntelligent(remainingPercent, maxDecimals)

\* ------------------------------------------------- updateStats: percentages
\* Math.round((stats.premiumRequests.current / stats.premiumRequests.limit) * 100)
premiumPercent(premiumRequests) ==
    MathRound(Multiply(Divide(premiumRequests.current, premiumRequests.limit), 100))

\* The premium request pairs a usage response can carry; a limit of 0 also
\* stands for maxRequestUsage: null.
PremiumRequests == [current : 0..MaxRequests, limit : 0..MaxLimit]

\* A usage response has arrived: the input of the percentage computations.
PercentageInputs == [op : {"usage"}, premiumRequests : PremiumRequests]

\* The percentages of one cycle: premiumPercent for colour and tooltip, the
\* one recomputed for the notifications, and the remaining percentage text.
ComputePercentages ==
    /\ calc.op = "usage"
    /\ calc' = [op |-> "percentages",
                premiumRequests |-> calc.premiumRequests,
                premiumPercent |-> premiumPercent(calc.premiumRequests),
                notifiedPercent |-> premiumPercent(calc.premiumRequests),
                remainingPercent |->
                    formatRemainingPercentage(calc.premiumRequests.current,
                                              calc.premiumRequests.limit,
                                              DefaultMaxDecimals)]
    /\ UNCHANGED <<pollVars, notifyVars>>

\* ------------------------------------------------------- billing lines
\* Largest number of lines in one monthly invoice response.
MaxLines == 2

\* A description is split into the run of digits it starts with (possibly
\* empty) and the words and phrases that follow, separated by blanks.
Description(digits, text) == [digits |-> digits, text |-> text]

\* description.includes(phrase)
includes(description, phrase) ==
    \E i \in 1..Len(description.text) : description.text[i] = phrase

\* Names accepted by genericModelPattern, and names it does not accept.
KnownModelNames ==
    {"claude-3.5-sonnet", "claude-4-sonnet-thinking", "gpt-4", "o1-mini"}
UnknownModelNames == {"my-model"}

\* The descriptions the model draws invoice lines from.
Descriptions ==
    { Description(<<"1", "2">>,
                  <<"discounted", "claude-3.5-sonnet", "requests", "beyond", "limit">>),
      Description(<<"3">>,
                  <<"token-based usage calls to", "claude-4-sonnet-thinking", ", totalling: $">>),
      Description(<<"5">>, <<"gpt-4", "tool calls">>),
      Description(<<"2">>, <<"extra fast premium requests", "(", "Haiku", ")">>),
      Description(<<"2">>, <<"extra fast premium requests">>),
      Description(<<"7">>, <<"my-model", "requests">>),
      Description(<<"4">>, <<"discounted", "my-model", "requests">>),
      Description(<<"6">>, <<"o1-mini", "requests">>),
      Description(<<"0">>, <<"requests", "to", "gpt-4">>),
      Description(<<"1", "2">>, <<>>),
      Description(<<>>, <<"Mid-month usage paid", "for", "gpt-4">>),
      Description(<<>>, <<"usage", "fee">>) }

\* Amounts in cents a line may carry.
CentsValues == {-500, 0, 1200}

\* One element of response.data.items: hasCents is false when the line has
\* no cents property or an undefined one.
RawItems ==
    [description : Descriptions, hasCents : {TRUE}, cents : CentsValues]
        \cup [description : {Description(<<"6">>, <<"o1-mini", "requests">>),
                             Description(<<>>, <<"Mid-month usage paid", "for", "gpt-4">>)},
              hasCents : {FALSE}, cents : {0}]

\* All sequences over S of length at most n.
SeqsUpTo(S, n) == UNION {[1..k -> S] : k \in 0..n}

\* Labels from the translation tables, and the value of a property that was
\* never set.
toolCallsLabel == "api.toolCalls"
fastPremiumLabel == "api.fastPremium"
midMonthPaymentLabel == "api.midMonthPayment"
Undefined == "undefined"
MidMonthMarker == "Mid-month usage paid"

\* The display languages of the extension.
Languages == {"en", "zh"}

\* t(key): the text of a label in the display language. The text of
\* statusBar.unknownModel is "unknown-model" in English; every other text
\* is stood for by its key.
t(key, language) ==
    IF key = "statusBar.unknownModel" /\ language = "en"
    THEN "unknown-model"
    ELSE key

\* t('statusBar.unknownModel')
unknownModel(language) == t("statusBar.unknownModel", language)
\* parseInt of a run of digits.
parseInt(digits) == DigitsValue(digits)

\* /^(\d+) token-based usage calls to ([\w.-]+), totalling: \$(?:[\d.]+)/
tokenBasedMatch(description) ==
    /\ description.digits # <<>>
    /\ Len(description.text) >= 3
    /\ description.text[1] = "token-based usage calls to"
    /\ description.text[2] \in KnownModelNames \cup UnknownModelNames
    /\ description.text[3] = ", totalling: $"

\* /^(\d+)\s+(.+?)(?: request| calls)?(?: beyond|\*| per|$)/i
originalMatch(description) ==
    description.digits # <<>> /\ description.text # <<>>

\* /^(\d+)/
fallbackCountMatch(description) == description.digits # <<>>

\* description.match(genericModelPattern): the first model name of the
\* description that the pattern accepts; group 1 leaves out a "discounted"
\* in front of it.
HasSpecificModel(description) ==
    \E i \in 1..Len(description.text) : description.text[i] \in KnownModelNames
specificModelMatch(description) ==
    LET i == CHOOSE i \in 1..Len(description.text) :
                 /\ description.text[i] \in KnownModelNames
                 /\ \A j \in 1..(i - 1) : description.text[j] \notin KnownModelNames
    IN  description.text[i]

\* /extra fast premium requests? \(([^)]+)\)/i
HasExtraFastModel(description) ==
    \E i \in 1..(Len(description.text) - 3) :
        /\ description.text[i] = "extra fast premium requests"
        /\ description.text[i + 1] = "("
        /\ description.text[i + 2] \notin {"(", ")"}
        /\ description.text[i + 3] = ")"
extraFastModelMatch(description) ==
    LET i == CHOOSE i \in 1..(Len(description.text) - 3) :
                 /\ description.text[i] = "extra fast premium requests"
                 /\ description.text[i + 1] = "("
                 /\ description.text[i + 2] \notin {"(", ")"}
                 /\ description.text[i + 3] = ")"
    IN  description.text[i + 2]

\* Variant of the model name cascade that looks for a known model name
\* before the tool calls marker.
parsedModelNameModelFirst(description, language) ==
    IF HasSpecificModel(description)
    THEN specificModelMatch(description)
    ELSE IF includes(description, "tool calls")
         THEN toolCallsLabel
         ELSE IF includes(description, "extra fast premium requests")
              THEN IF HasExtraFastModel(description)
                   THEN extraFastModelMatch(description)
                   ELSE fastPremiumLabel
              ELSE unknownModel(language)

\* The model name of a line of the generic leading-integer shape.
parsedModelName(description, language) ==
    IF includes(description, "tool calls")
    THEN toolCallsLabel
    ELSE IF HasSpecificModel(description)
         THEN specificModelMatch(description)
         ELSE IF includes(description, "extra fast premium requests")
              THEN IF HasExtraFastModel(description)
                   THEN extraFastModelMatch(description)
                   ELSE fastPremiumLabel
              ELSE unknownModel(language)

\* Request count and model name of a line that is no mid-month payment;
\* skip is the `continue` of a line with no leading integer.
parseDescription(description, language) ==
    IF tokenBasedMatch(description)
    THEN [skip |-> FALSE,
          requestCount |-> parseInt(description.digits),
          parsedModelName |-> description.text[2],
          isTotallingItem |-> TRUE]
    ELSE IF originalMatch(description)
         THEN [skip |-> FALSE,
               requestCount |-> parseInt(description.digits),
               parsedModelName |-> parsedModelName(description, language),
               isTotallingItem |-> FALSE]
         ELSE IF fallbackCountMatch(description)
              THEN [skip |-> FALSE,
                    requestCount |-> parseInt(description.digits),
                    parsedModelName |-> unknownModel(language),
                    isTotallingItem |-> FALSE]
              ELSE [skip |-> TRUE]

\* x + y.
Plus(x, y) ==
    IF x.d = y.d
    THEN Number(x.n + y.n, x.d)
    ELSE Number(x.n * y.d + y.n * x.d, x.d * y.d)

\* The special line pushed for a mid-month payment, after it was added to
\* the running total.
midMonthItem(item, midMonthPayment) ==
    [calculation |-> [label |-> midMonthPaymentLabel,
                      amount |-> <<"$">> \o toFixed(midMonthPayment, 2)],
     totalDollars |-> <<"-", "$">> \o toFixed(midMonthPayment, 2),
     description |-> item.description,
     modelNameForTooltip |-> Undefined,
     isDiscounted |-> FALSE]

\* The line pushed for a usage item; calculation holds the numbers its
\* text prints.
usageItem(item, parsed) ==
    [calculation |-> [requestCount |-> parsed.requestCount,
                      costPerRequestCents |-> Divide(item.cents, parsed.requestCount),
                      isTotallingItem |-> parsed.isTotallingItem],
     totalDollars |-> <<"$">> \o toFixed(Number(item.cents, 100), 2),
     description |-> item.description,
     modelNameForTooltip |-> parsed.parsedModelName,
     isDiscounted |-> includes(item.description, "discounted")]

\* Variant of the item loop that also skips a line that costs nothing.
RECURSIVE itemLoopSkipsFree(_, _, _, _)
itemLoopSkipsFree(rawItems, usageItems, midMonthPayment, language) ==
    IF rawItems = <<>>
    THEN [items |-> usageItems, midMonthPayment |-> midMonthPayment]
    ELSE LET item == Head(rawItems)
             parsed == parseDescription(item.description, language)
         IN  IF ~item.hasCents
             THEN itemLoopSkipsFree(Tail(rawItems), usageItems, midMonthPayment, language)
             ELSE IF includes(item.description, MidMonthMarker)
                  THEN LET paid == Plus(midMonthPayment, Number(Abs(item.cents), 100))
                       IN  itemLoopSkipsFree(Tail(rawItems),
                                    Append(usageItems, midMonthItem(item, paid)), paid,
                                    language)
                  ELSE IF parsed.skip \/ parsed.requestCount = 0 \/ item.cents = 0
                       THEN itemLoopSkipsFree(Tail(rawItems), usageItems, midMonthPayment,
                                     language)
                       ELSE itemLoopSkipsFree(Tail(rawItems),
                                     Append(usageItems, usageItem(item, parsed)),
                                     midMonthPayment, language)

\* The third loop of fetchMonthData over response.data.items.
RECURSIVE itemLoop(_, _, _, _)
itemLoop(rawItems, usageItems, midMonthPayment, language) ==
    IF rawItems = <<>>
    THEN [items |-> usageItems, midMonthPayment |-> midMonthPayment]
    ELSE LET item == Head(rawItems)
             parsed == parseDescription(item.description, language)
         IN  IF ~item.hasCents
             THEN itemLoop(Tail(rawItems), usageItems, midMonthPayment, language)
             ELSE IF includes(item.description, MidMonthMarker)
                  THEN LET paid == Plus(midMonthPayment, Number(Abs(item.cents), 100))
                       IN  itemLoop(Tail(rawItems),
                                    Append(usageItems, midMonthItem(item, paid)), paid,
                                    language)
                  ELSE IF parsed.skip \/ parsed.requestCount = 0
                       THEN itemLoop(Tail(rawItems), usageItems, midMonthPayment,
                                     language)
                       ELSE itemLoop(Tail(rawItems),
                                     Append(usageItems, usageItem(item, parsed)),
                                     midMonthPayment, language)

\* fetchMonthData, from the response of the invoice endpoint on.
fetchMonthData(response, language) ==
    LET parsed == itemLoop(response.items, <<>>, Number(0, 100), language)
    IN  [items |-> parsed.items,
         hasUnpaidMidMonthInvoice |-> response.hasUnpaidMidMonthInvoice,
         midMonthPayment |-> parsed.midMonthPayment]

\* The responses of the invoice endpoint, and the display language.
InvoiceInputs ==
    [op : {"invoice"},
     response : [items : SeqsUpTo(RawItems, MaxLines),
                 hasUnpaidMidMonthInvoice : BOOLEAN],
     language : Languages]

\* One monthly invoice is fetched and parsed.
FetchMonth ==
    /\ calc.op = "invoice"
    /\ calc' = [op |-> "month",
                response |-> calc.response,
                language |-> calc.language,
                data |-> fetchMonthData(calc.response, calc.language)]
    /\ UNCHANGED <<pollVars, notifyVars>>

\* --------------------------------------------- updateStats: usage-based part

\* The invoice lines the usage-based computations are run on.
StatsItems ==
    { [description |-> Description(<<"1", "2">>,
                          <<"discounted", "claude-3.5-sonnet", "requests", "beyond", "limit">>),
       hasCents |-> TRUE, cents |-> 1200],
      [description |-> Description(<<"7">>, <<"my-model", "requests">>),
       hasCents |-> TRUE, cents |-> -500],
      [description |-> Description(<<>>, <<"Mid-month usage paid", "for", "gpt-4">>),
       hasCents |-> TRUE, cents |-> -500],
      [description |-> Description(<<"0">>, <<"requests", "to", "gpt-4">>),
       hasCents |-> TRUE, cents |-> 1200] }

\* s.replace(c, ''): s without the first occurrence of the character c.
RECURSIVE replaceFirst(_, _)
replaceFirst(s, c) ==
    IF s = <<>>
    THEN <<>>
    ELSE IF Head(s) = c THEN Tail(s) ELSE <<Head(s)>> \o replaceFirst(Tail(s), c)

\* Variant of the reduce that adds every cost, credits included.
RECURSIVE actualTotalCostAllItems(_)
actualTotalCostAllItems(items) ==
    IF items = <<>>
    THEN Number(0, 1)
    ELSE LET sum == actualTotalCostAllItems(SubSeq(items, 1, Len(items) - 1))
             cost == parseFloat(replaceFirst(items[Len(items)].totalDollars, "$"))
         IN  Plus(sum, cost)

\* items.reduce((sum, item) => cost > 0 ? sum + cost : sum, 0), with
\* cost = parseFloat(item.totalDollars.replace('$', '')).
RECURSIVE actualTotalCost(_)
actualTotalCost(items) ==
    IF items = <<>>
    THEN Number(0, 1)
    ELSE LET sum == actualTotalCost(SubSeq(items, 1, Len(items) - 1))
             cost == parseFloat(replaceFirst(items[Len(items)].totalDollars, "$"))
         IN  IF NumLess(Number(0, 1), cost) THEN Plus(sum, cost) ELSE sum

\* (actualTotalCost / usageStatus.limit) * 100
PercentOfLimit(cost, limit) == Number(cost.n * 100, cost.d * limit)

\* The stats of a cycle with the result of checkUsageBasedStatus: the two
\* invoice responses as fetchCursorStats received them.
StatsInputs ==
    [op : {"stats"},
     currentResponse : [items : SeqsUpTo(StatsItems, MaxLines),
                        hasUnpaidMidMonthInvoice : {FALSE}],
     lastResponse : [items : SeqsUpTo(StatsItems, MaxLines),
                     hasUnpaidMidMonthInvoice : {FALSE}],
     usageStatus : UsageStatuses,
     language : Languages]

\* The usage-based part of updateStats: the active month, its total cost
\* for the status bar and for the tooltip, usageBasedPercent for the
\* notifications and the percentage of the tooltip's usage data.
ComputeUsage ==
    /\ calc.op = "stats"
    /\ LET currentMonth == fetchMonthData(calc.currentResponse, calc.language)
           lastMonth == fetchMonthData(calc.lastResponse, calc.language)
           usageStatus == calc.usageStatus
           useCurrent == Len(currentMonth.items) > 0
           activeMonthData == IF useCurrent THEN currentMonth ELSE lastMonth
           hasItems == Len(activeMonthData.items) > 0
           cost == IF hasItems THEN actualTotalCost(activeMonthData.items)
                   ELSE Number(0, 1)
           percent == IF hasItems /\ usageStatus.isEnabled /\ usageStatus.limit # Null
                      THEN PercentOfLimit(cost, usageStatus.limit)
                      ELSE Number(0, 1)
       IN  calc' = [op |-> "usage-based",
                    currentResponse |-> calc.currentResponse,
                    lastResponse |-> calc.lastResponse,
                    usageStatus |-> usageStatus,
                    language |-> calc.language,
                    active |-> IF useCurrent THEN "current" ELSE "last",
                    activeMonthData |-> activeMonthData,
                    hasItems |-> hasItems,
                    actualTotalCost |-> cost,
                    tooltipTotalCost |->
                        IF hasItems THEN actualTotalCost(activeMonthData.items)
                        ELSE Number(0, 1),
                    usagePercentage |->
                        IF ~hasItems
                        THEN <<>>
                        ELSE IF usageStatus.limit # Null
                        THEN formatPercentageIntelligent(
                                 PercentOfLimit(cost, usageStatus.limit), DefaultMaxDecimals)
                        ELSE <<"0">>,
                    usageBasedPercent |->
                        IF usageStatus.isEnabled THEN percent ELSE Number(0, 1)]
    /\ UNCHANGED <<pollVars, notifyVars>>

\* ------------------------------------------- fetchCursorStats: the periods
\* usageBasedBillingDay
usageBasedBillingDay == 3

\* The years of the dates the model draws: FirstYear .. FirstYear + MaxYears.
FirstYear == 2024
MaxYears == 1

\* Number of days of a month.
DaysInMonth(month, year) ==
    IF month = 2
    THEN IF year % 4 = 0 /\ (year % 100 # 0 \/ year % 400 = 0) THEN 29 ELSE 28
    ELSE IF month \in {4, 6, 9, 11} THEN 30 ELSE 31

\* new Date(): getDate(), getMonth() + 1 and getFullYear().
Dates ==
    {date \in [day : 1..31, month : 1..12, year : FirstYear..(FirstYear + MaxYears)] :
        date.day <= DaysInMonth(date.month, date.year)}

DateInputs == [op : {"date"}, currentDate : Dates]

\* Variant of the period computation that moves the month back and keeps
\* the year.
usageBasedPeriodsKeepYear(currentDate) ==
    LET early == currentDate.day < usageBasedBillingDay
        month == IF early
                 THEN IF currentDate.month = 1 THEN 12 ELSE currentDate.month - 1
                 ELSE currentDate.month
        year == currentDate.year
    IN  [usageBasedCurrentMonth |-> month,
         usageBasedCurrentYear |-> year,
         usageBasedLastMonth |-> IF month = 1 THEN 12 ELSE month - 1,
         usageBasedLastYear |-> IF month = 1 THEN year - 1 ELSE year]

\* The current and the last usage-based period for a date.
usageBasedPeriods(currentDate) ==
    LET early == currentDate.day < usageBasedBillingDay
        month == IF early
                 THEN IF currentDate.month = 1 THEN 12 ELSE currentDate.month - 1
                 ELSE currentDate.month
        year == IF early /\ month = 12 THEN currentDate.year - 1 ELSE currentDate.year
    IN  [usageBasedCurrentMonth |-> month,
         usageBasedCurrentYear |-> year,
         usageBasedLastMonth |-> IF month = 1 THEN 12 ELSE month - 1,
         usageBasedLastYear |-> IF month = 1 THEN year - 1 ELSE year]

\* fetchCursorStats chooses the two periods it fetches.
ChoosePeriods ==
    /\ calc.op = "date"
    /\ calc' = [op |-> "periods",
                currentDate |-> calc.currentDate,
                periods |-> usageBasedPeriods(calc.currentDate)]
    /\ UNCHANGED <<pollVars, notifyVars>>

\* ------------------------------------------- fetchCursorStats: its errors
\* The requests of fetchCursorStats that are not caught where they are made:
\* the individual usage request and the two monthly-invoice requests.
StatsRequests == {"usage", "currentMonth", "lastMonth"}

\* An error object: isAxiosError is the mark axios.isAxiosError tests,
\* response holds the HTTP status of the response when there is one.
ErrorObject(isAxiosError, response) ==
    [isAxiosError |-> isAxiosError, response |-> response]

\* The errors axios rejects a request with: a response with a status outside
\* 2xx, or no response at all.
AxiosErrors ==
    {ErrorObject(TRUE, <<status>>) : status \in {"401", "403", "500"}}
        \cup {ErrorObject(TRUE, <<>>)}

\* createApiErrorFromAxios: an ApiError, which carries the response of an
\* axios error and none for any other error.
createApiErrorFromAxios(error) ==
    IF error.isAxiosError
    THEN ErrorObject(FALSE, error.response)
    ELSE ErrorObject(FALSE, <<>>)

\* The error fetchCursorStats rejects with when a request was rejected with
\* axiosError: an invoice request is made in fetchMonthData, whose catch
\* block wraps the error before the catch block of fetchCursorStats wraps
\* what it caught.
fetchCursorStatsError(request, axiosError) ==
    IF request = "usage"
    THEN createApiErrorFromAxios(axiosError)
    ELSE createApiErrorFromAxios(createApiErrorFromAxios(axiosError))

\* error.response?.status === 401 || error.response?.status === 403
IsAuthError(error) ==
    error.response # <<>> /\ error.response[1] \in {"401", "403"}

\* The outcome of fetchCursorStats that updateStats sees in a rejection.
FetchResultOf(error) ==
    IF error.response = <<>> THEN "noResponse" ELSE error.response[1]

FetchFailureInputs ==
    [op : {"request-fails"}, request : StatsRequests, axiosError : AxiosErrors]

\* A request of fetchCursorStats is rejected: the error reaches the handler
\* of updateStats, which decides whether to look up a new token.
FetchRejects ==
    /\ calc.op = "request-fails"
    /\ LET error == fetchCursorStatsError(calc.request, calc.axiosError)
       IN  calc' = [op |-> "fetch-rejected",
                    request |-> calc.request,
                    axiosError |-> calc.axiosError,
                    error |-> error,
                    result |-> FetchResultOf(error),
                    asksNewToken |-> IsAuthError(error)]
    /\ UNCHANGED <<pollVars, notifyVars>>

\* ------------------------------------ updateStats: unknown-model notification
\* The letters, for toLowerCase.
UpperCaseLetters ==
    <<"A", "B", "C", "D", "E", "F", "G", "H", "I", "J", "K", "L", "M",
      "N", "O", "P", "Q", "R", "S", "T", "U", "V", "W", "X", "Y", "Z">>
LowerCaseLetters ==
    <<"a", "b", "c", "d", "e", "f", "g", "h", "i", "j", "k", "l", "m",
      "n", "o", "p", "q", "r", "s", "t", "u", "v", "w", "x", "y", "z">>

\* s.toLowerCase(), s a sequence of characters.
toLowerCase(s) ==
    [i \in 1..Len(s) |->
        IF \E k \in 1..Len(UpperCaseLetters) : UpperCaseLetters[k] = s[i]
        THEN LowerCaseLetters[CHOOSE k \in 1..Len(UpperCaseLetters) :
                                  UpperCaseLetters[k] = s[i]]
        ELSE s[i]]

\* s.includes(part), for sequences of characters.
stringIncludes(s, part) ==
    \E i \in 1..(Len(s) - Len(part) + 1) : SubSeq(s, i, i + Len(part) - 1) = part

\* The terms that the cleanup of a description may leave in
\* extractedTermForNotification: names of models, one of them in two
\* spellings, one with a suffix and one that is a part of another; a
\* keyword, "discounted", a single character and the empty string.
Terms ==
    { <<"z", "e", "d">>,
      <<"Z", "e", "d">>,
      <<"z", "e", "d", "-", "2">>,
      <<"e", "d">>,
      <<"q", "7">>,
      <<"k", "2">>,
      <<"F", "a", "s", "t">>,
      <<"d", "i", "s", "c", "o", "u", "n", "t", "e", "d">>,
      <<"x">>,
      <<>> }

\* Of veryGenericKeywords, the words that occur among the terms.
veryGenericKeywords == { <<"f", "a", "s", "t">>, <<"u", "s", "a", "g", "e">> }

\* The terms that are set aside before the list of keywords is consulted.
ExcludedTerms ==
    { <<"t", "o", "k", "e", "n", "-", "b", "a", "s", "e", "d">>,
      <<"d", "i", "s", "c", "o", "u", "n", "t", "e", "d">> }

\* The items of the tooltip loop, as far as the collection reads them: the
\* model name set by the parser and the term extracted from the description.
TooltipItems ==
    [modelNameForTooltip : {unknownModel(language) : language \in Languages} \cup {"gpt-4"},
     extractedTermForNotification : Terms]

\* Variant of the duplicate test that compares the terms as they are spelled.
alreadyPresentCaseSensitive(term) ==
    \E d \in detectedUnknownModels : stringIncludes(d, term) \/ stringIncludes(term, d)

\* alreadyPresent: a stored term contains the term or is contained in it,
\* both in lower case.
alreadyPresent(term) ==
    \E d \in detectedUnknownModels :
        \/ stringIncludes(toLowerCase(d), toLowerCase(term))
        \/ stringIncludes(toLowerCase(term), toLowerCase(d))

\* An invocation of updateStats reaches the loop over the items of the
\* active month.
EnterItemLoop ==
    /\ rendering < MaxCycles
    /\ rendering' = rendering + 1
    /\ UNCHANGED <<detectedUnknownModels, unknownModelNotificationShown, notifications>>
    /\ UNCHANGED <<pollVars, calc>>

\* One iteration of the loop, up to its await: the term of an item flagged
\* as unknown-model is added to detectedUnknownModels unless it is too
\* short, excluded, a keyword or already present.
CollectUnknownModel(item) ==
    /\ rendering > 0
    /\ LET term == item.extractedTermForNotification
       IN  IF /\ item.modelNameForTooltip = "unknown-model"
              /\ term # <<>>
              /\ Len(term) > 1
              /\ toLowerCase(term) \notin ExcludedTerms
              /\ toLowerCase(term) \notin veryGenericKeywords
              /\ ~alreadyPresent(term)
           THEN detectedUnknownModels' = detectedUnknownModels \cup {term}
           ELSE UNCHANGED detectedUnknownModels
    /\ UNCHANGED <<unknownModelNotificationShown, notifications, rendering>>
    /\ UNCHANGED <<pollVars, calc>>

\* Variant of the notification step that leaves the flag as it is; it stops
\* after MaxCycles notifications.
NotifyUnknownModelsEveryCycle ==
    /\ rendering > 0
    /\ rendering' = rendering - 1
    /\ IF detectedUnknownModels # {} /\ Len(notifications) < MaxCycles
       THEN notifications' = Append(notifications, detectedUnknownModels)
       ELSE UNCHANGED notifications
    /\ UNCHANGED <<detectedUnknownModels, unknownModelNotificationShown>>
    /\ UNCHANGED <<pollVars, calc>>

\* The end of the invocation: the notification for the collected terms.
NotifyUnknownModels ==
    /\ rendering > 0
    /\ rendering' = rendering - 1
    /\ IF ~unknownModelNotificationShown /\ detectedUnknownModels # {}
       THEN /\ unknownModelNotificationShown' = TRUE
            /\ notifications' = Append(notifications, detectedUnknownModels)
       ELSE UNCHANGED <<unknownModelNotificationShown, notifications>>
    /\ UNCHANGED detectedUnknownModels
    /\ UNCHANGED <<pollVars, calc>>

NotifyNext ==
    \/ EnterItemLoop
    \/ \E item \in TooltipItems : CollectUnknownModel(item)
    \/ NotifyUnknownModels

NotifySpec == Init /\ [][NotifyNext]_vars

\* ------------------------------------------------------ data specification
\* The responses and dates the computations start from.
DataInputs ==
    PercentageInputs \cup InvoiceInputs \cup StatsInputs \cup DateInputs
        \cup FetchFailureInputs

DataInit == PollInit /\ NotifyInit /\ calc \in DataInputs

DataNext ==
    \/ ComputePercentages
    \/ FetchMonth
    \/ ComputeUsage
    \/ ChoosePeriods
    \/ FetchRejects

DataSpec == DataInit /\ [][DataNext]_vars

\* ------------------------------------------------------- claims on the data

\* Number of characters of s after its ".", 0 if it has none.
DecimalsOf(s) == IF DotAt(s) = 0 THEN 0 ELSE Len(s) - DotAt(s)

\* C12: the premium utilization used for colour, tooltip and notifications
\* is 0 whenever the limit is 0, absent or negative, and otherwise
\* round(100 * current / limit), not clamped.
PremiumUtilizationGuarded ==
    calc.op = "percentages" =>
        LET current == calc.premiumRequests.current
            limit == calc.premiumRequests.limit
            expected == IF limit <= 0
                        THEN 0
                        ELSE (200 * current + limit) \div (2 * limit)
        IN  /\ IsFinite(calc.premiumPercent)
            /\ calc.premiumPercent.n = expected * calc.premiumPercent.d
            /\ IsFinite(calc.notifiedPercent)
            /\ calc.notifiedPercent.n = expected * calc.notifiedPercent.d

\* C13: formatRemainingPercentage gives "0" for every limit <= 0; for a
\* positive limit it gives "0" when current >= limit, "100" when
\* current <= 0, "50" for (50, 100), and always a numeral within half a
\* thousandth of 100 - 100 * current / limit clamped to [0, 100].
RemainingPercentageClamped ==
    calc.op = "percentages" =>
        LET current == calc.premiumRequests.current
            limit == calc.premiumRequests.limit
            out == calc.remainingPercent
            v == parseFloat(out)
            e == IF current >= limit
                 THEN Number(0, 1)
                 ELSE IF current <= 0
                      THEN Number(100, 1)
                      ELSE Number(100 * limit - 100 * current, limit)
        IN  /\ (limit <= 0 => out = <<"0">>)
            /\ ((limit > 0 /\ current >= limit) => out = <<"0">>)
            /\ ((limit > 0 /\ current <= 0) => out = <<"1", "0", "0">>)
            /\ ((current = 50 /\ limit = 100) => out = <<"5", "0">>)
            /\ (limit > 0 =>
                  Abs(v.n * e.d - e.n * v.d) <= (v.d * e.d) \div 2000)

\* C13 witness: the usage exceeds a positive limit and the text is "0".
RemainingClampedAtZero ==
    /\ calc.op = "percentages"
    /\ calc.premiumRequests.limit > 0
    /\ calc.premiumRequests.current > calc.premiumRequests.limit
    /\ calc.remainingPercent = <<"0">>

\* C14: an integer percentage is rendered without a decimal point; a
\* non-integer one with the smallest number of decimals d in 1..3 at which
\* it is a d-decimal number, and if there is none, rounded to 3 decimals; in
\* both cases without zeros at the end.  (67, 201) gives "66.667".
SmartFormat ==
    (calc.op = "percentages"
        /\ calc.premiumRequests.limit > 0
        /\ calc.premiumRequests.current > 0
        /\ calc.premiumRequests.current < calc.premiumRequests.limit) =>
        LET current == calc.premiumRequests.current
            limit == calc.premiumRequests.limit
            p == Number(100 * (limit - current), limit)
            out == calc.remainingPercent
            v == parseFloat(out)
            k == DecimalsOf(out)
            Exact(d) == (p.n * Pow10(d)) % p.d = 0
            ExactAt == {d \in 1..DefaultMaxDecimals : Exact(d)}
        IN  /\ IF Exact(0)
               THEN DotAt(out) = 0 /\ NumEq(v, p)
               ELSE IF ExactAt # {}
                    THEN /\ NumEq(v, p)
                         /\ k \in ExactAt
                         /\ \A d \in ExactAt : k <= d
                    ELSE /\ k <= DefaultMaxDecimals
                         /\ v.n * (Pow10(DefaultMaxDecimals) \div v.d)
                               = (2 * p.n * Pow10(DefaultMaxDecimals) + p.d) \div (2 * p.d)
            /\ (DotAt(out) # 0 => out[Len(out)] \notin {"0", "."})
            /\ ((current = 67 /\ limit = 201) =>
                    out = <<"6", "6", ".", "6", "6", "7">>)

\* C14 witness: no rendering with at most 3 decimals is exact for
\* (67, 201), and the text is "66.667".
SmartFormatFallback ==
    /\ calc.op = "percentages"
    /\ calc.premiumRequests = [current |-> 67, limit |-> 201]
    /\ calc.remainingPercent = <<"6", "6", ".", "6", "6", "7">>

\* C15: the usage-based utilization of a cycle is 0 when usage-based billing
\* is disabled or no limit is set, both as the percentage for the status bar
\* and the notifications and as the percentage of the tooltip's usage data;
\* otherwise the percentage is exactly 100 * actualTotalCost / limit.
UsageUtilizationGuarded ==
    (calc.op = "usage-based" /\ calc.hasItems) =>
        IF ~calc.usageStatus.isEnabled \/ calc.usageStatus.limit = Null
        THEN /\ NumEq(calc.usageBasedPercent, Number(0, 1))
             /\ calc.usagePercentage = <<"0">>
        ELSE NumEq(calc.usageBasedPercent,
                   Number(100 * calc.actualTotalCost.n,
                          calc.actualTotalCost.d * calc.usageStatus.limit))

\* A line of a response that the data model counts as a usage line item: it
\* carries an amount, is not a mid-month payment and has a request count
\* other than zero.
IsUsageLine(rawItem) ==
    /\ rawItem.hasCents
    /\ ~includes(rawItem.description, MidMonthMarker)
    /\ rawItem.description.digits # <<>>
    /\ DigitsValue(rawItem.description.digits) # 0

\* C17: the period whose data is displayed is the current one exactly when
\* the current period has at least one usage line item, mid-month payment
\* lines and zero-request lines not counted; otherwise it is the previous one.
ActivePeriodSelection ==
    calc.op = "usage-based" =>
        (calc.active = "current" <=>
            (\E i \in 1..Len(calc.currentResponse.items) :
                 IsUsageLine(calc.currentResponse.items[i])))

\* The sum of the cents of the usage lines of a response that cost more than
\* nothing.
RECURSIVE SumPositiveCents(_)
SumPositiveCents(rawItems) ==
    IF rawItems = <<>>
    THEN 0
    ELSE (IF IsUsageLine(Head(rawItems)) /\ Head(rawItems).cents > 0
          THEN Head(rawItems).cents
          ELSE 0) + SumPositiveCents(Tail(rawItems))

\* The response of the period whose data is displayed.
ActiveResponse ==
    IF calc.active = "current" THEN calc.currentResponse ELSE calc.lastResponse

\* C19: actualTotalCost of the active period, for the status bar and for the
\* tooltip, is the sum of the costs of the items that cost strictly more
\* than zero; mid-month payment lines and other lines with a negative or
\* zero cost do not change it.
ActualTotalCostSumsPositive ==
    calc.op = "usage-based" =>
        /\ NumEq(calc.actualTotalCost,
                 Number(SumPositiveCents(ActiveResponse.items), 100))
        /\ NumEq(calc.tooltipTotalCost,
                 Number(SumPositiveCents(ActiveResponse.items), 100))

\* A period with a charge and a line of negative amount that is among its
\* items: only the charge is in the total.
TotalIgnoresCredits ==
    /\ calc.op = "usage-based"
    /\ \E i \in 1..Len(calc.activeMonthData.items) :
           NumLess(parseFloat(replaceFirst(calc.activeMonthData.items[i].totalDollars, "$")),
                   Number(0, 1))
    /\ NumEq(calc.actualTotalCost, Number(1200, 100))

\* The calendar month before a month, as a (month, year) pair.
MonthBefore(month, year) ==
    IF month = 1 THEN <<12, year - 1>> ELSE <<month - 1, year>>

\* C18: the current usage-based period of a date is its month and year from
\* the 3rd day on and the calendar month before it on the 1st and 2nd
\* (December of the year before in January); the last period is the calendar
\* month before the current period, in the year before when the current
\* period is January.
BillingPeriodRule ==
    calc.op = "periods" =>
        LET date == calc.currentDate
            current == <<calc.periods.usageBasedCurrentMonth,
                         calc.periods.usageBasedCurrentYear>>
            last == <<calc.periods.usageBasedLastMonth,
                      calc.periods.usageBasedLastYear>>
        IN  /\ current = IF date.day >= 3
                         THEN <<date.month, date.year>>
                         ELSE MonthBefore(date.month, date.year)
            /\ last = MonthBefore(current[1], current[2])

\* The 1st or 2nd of January: the current period is December of the year
\* before and the last period is November of that year.
PeriodAcrossNewYear ==
    /\ calc.op = "periods"
    /\ calc.currentDate.day < 3
    /\ calc.currentDate.month = 1
    /\ calc.periods.usageBasedCurrentMonth = 12
    /\ calc.periods.usageBasedCurrentYear = calc.currentDate.year - 1
    /\ calc.periods.usageBasedLastMonth = 11

\* The sum of the absolute cents of the mid-month payment lines of a response.
RECURSIVE SumAbsCredits(_)
SumAbsCredits(rawItems) ==
    IF rawItems = <<>>
    THEN 0
    ELSE (IF Head(rawItems).hasCents /\ includes(Head(rawItems).description, MidMonthMarker)
          THEN Abs(Head(rawItems).cents)
          ELSE 0) + SumAbsCredits(Tail(rawItems))

\* C16: no line whose description contains the mid-month payment marker is
\* in the items of the parsed month, and midMonthPayment is the sum of the
\* absolute cents of all such lines.
MidMonthLinesKeptOut ==
    calc.op = "month" =>
        /\ \A i \in 1..Len(calc.data.items) :
               ~includes(calc.data.items[i].description, MidMonthMarker)
        /\ NumEq(calc.data.midMonthPayment,
                 Number(SumAbsCredits(calc.response.items), 100))

\* A description of the generic leading-integer shape: a count, then text
\* that is neither the token-based phrase nor a mid-month payment.
GenericShape(d) ==
    /\ d.digits # <<>>
    /\ d.text # <<>>
    /\ d.text[1] # "token-based usage calls to"
    /\ ~includes(d, MidMonthMarker)

NamesKnownModel(d) == \E i \in 1..Len(d.text) : d.text[i] \in KnownModelNames

\* name stands in parentheses in d.
IsQualifierOf(name, d) ==
    \E i \in 1..(Len(d.text) - 2) :
        d.text[i] = "(" /\ d.text[i + 1] = name /\ d.text[i + 2] = ")"

ExampleLine ==
    Description(<<"1", "2">>,
                <<"discounted", "claude-3.5-sonnet", "requests", "beyond", "limit">>)

\* What C20 says of every line but an extra fast premium request line: the
\* tool calls marker wins over a known model name, a known model name is
\* taken without the "discounted" in front of it, a line with none of the
\* markers gets the sentinel, every billable line of the shape yields an
\* item, and the example line parses as stated.
ModelNameRules(it) ==
    LET d == it.description
        name == it.modelNameForTooltip
    IN  /\ (includes(d, "tool calls") => name = toolCallsLabel)
        /\ ((~includes(d, "tool calls") /\ NamesKnownModel(d)) =>
               (name \in KnownModelNames /\ includes(d, name)))
        /\ ((~includes(d, "tool calls")
               /\ ~NamesKnownModel(d)
               /\ ~includes(d, "extra fast premium requests"))
               => name = unknownModel(calc.language))
        /\ ((d = ExampleLine /\ it.totalDollars = <<"$", "1", "2", ".", "0", "0">>) =>
               (/\ it.calculation.requestCount = 12
                /\ name = "claude-3.5-sonnet"
                /\ it.isDiscounted
                /\ NumEq(it.calculation.costPerRequestCents, Number(100, 1))))

EveryGenericLineParsed ==
    \A k \in 1..Len(calc.response.items) :
        LET raw == calc.response.items[k]
        IN  (GenericShape(raw.description)
                /\ raw.hasCents
                /\ DigitsValue(raw.description.digits) > 0)
                => \E i \in 1..Len(calc.data.items) :
                       /\ calc.data.items[i].description = raw.description
                       /\ calc.data.items[i].calculation.requestCount
                              = DigitsValue(raw.description.digits)

IsUsageItem(item) == ~includes(item.description, MidMonthMarker)
UsageItemsOf(items) == SelectSeq(items, IsUsageItem)

\* The lines of a response that have an amount, are no mid-month payment
\* and start with an integer other than zero.
UsageLinesOf(rawItems) == SelectSeq(rawItems, IsUsageLine)

\* The cost an item shows, as a number.
CostOf(item) == parseFloat(replaceFirst(item.totalDollars, "$"))

\* C21: of the lines that are no mid-month payment, exactly those without an
\* amount, without a leading integer or with a request count of zero are
\* skipped: the usage items of the parsed month are, in order, the other
\* lines, each with its amount in dollars, whether the amount is zero or
\* not; so a line "0 requests to gpt-4" yields no item and adds nothing to
\* the total cost, and a line with requests and zero cents yields an item.
OnlyUnbillableLinesSkipped ==
    calc.op = "month" =>
        LET kept == UsageLinesOf(calc.response.items)
            items == UsageItemsOf(calc.data.items)
        IN  /\ Len(items) = Len(kept)
            /\ \A i \in 1..Len(items) :
                   /\ items[i].description = kept[i].description
                   /\ NumEq(CostOf(items[i]), Number(kept[i].cents, 100))
                   /\ items[i].calculation.requestCount
                          = DigitsValue(kept[i].description.digits)
            /\ NumEq(actualTotalCost(calc.data.items),
                     Number(SumPositiveCents(calc.response.items), 100))

\* C21 witness: a response with a zero-request line that has an amount and a
\* line with requests and zero cents: the one item is the free line.
FreeLineKept ==
    /\ calc.op = "month"
    /\ Len(calc.response.items) = 2
    /\ calc.response.items[1].description = Description(<<"0">>, <<"requests", "to", "gpt-4">>)
    /\ calc.response.items[1].cents > 0
    /\ calc.response.items[2].hasCents
    /\ calc.response.items[2].cents = 0
    /\ Len(calc.data.items) = 1
    /\ calc.data.items[1].totalDollars = <<"$", "0", ".", "0", "0">>
    /\ calc.data.items[1].description = calc.response.items[2].description

\* A usage line whose model the parser cannot resolve: it has the generic
\* shape and names no tool calls, no known model and no extra fast premium
\* request.
IsAnomalousLine(rawItem) ==
    /\ IsUsageLine(rawItem)
    /\ GenericShape(rawItem.description)
    /\ ~includes(rawItem.description, "tool calls")
    /\ ~NamesKnownModel(rawItem.description)
    /\ ~includes(rawItem.description, "extra fast premium requests")

\* A sequence without its i-th element.
RemoveAt(s, i) == SubSeq(s, 1, i - 1) \o SubSeq(s, i + 1, Len(s))

\* C22: a line with a leading integer whose model cannot be resolved is
\* emitted as an item whose model name is "unknown-model", the value
\* updateStats tests for, and the other lines of the response are parsed
\* as they are without that line.
ParseAnomalyDegradesOneLine ==
    calc.op = "month" =>
        \A i \in 1..Len(calc.response.items) :
            IsAnomalousLine(calc.response.items[i]) =>
                LET others == [calc.response EXCEPT !.items = RemoveAt(@, i)]
                IN  \E k \in 1..Len(calc.data.items) :
                        /\ calc.data.items[k].description
                               = calc.response.items[i].description
                        /\ calc.data.items[k].modelNameForTooltip = "unknown-model"
                        /\ UsageItemsOf(RemoveAt(calc.data.items, k))
                               = UsageItemsOf(fetchMonthData(others, calc.language).items)

\* C23: the unknown-models notification is shown at most once, whatever the
\* number of invocations, one after the other or overlapping, and whatever
\* is detected later; when it is shown it carries the terms collected up
\* to then as one batch.
NotifiedAtMostOnce ==
    /\ [](Len(notifications) <= 1)
    /\ [](unknownModelNotificationShown <=> Len(notifications) = 1)
    /\ [][notifications' # notifications =>
             /\ notifications = <<>>
             /\ detectedUnknownModels # {}
             /\ notifications' = <<detectedUnknownModels>>]_vars

\* C23 witness: the notification was shown with one term, another term was
\* collected afterwards, and two invocations are in their item loops.
DetectedAfterNotification ==
    /\ unknownModelNotificationShown
    /\ Len(notifications) = 1
    /\ Cardinality(notifications[1]) = 1
    /\ Cardinality(detectedUnknownModels) = 2
    /\ rendering = MaxCycles

\* a and b are duplicates: one contains the other when both are in lower case.
Duplicates(a, b) ==
    \/ stringIncludes(toLowerCase(a), toLowerCase(b))
    \/ stringIncludes(toLowerCase(b), toLowerCase(a))

\* C27: the set of detected terms never holds two entries of which one
\* contains the other case-insensitively; a term is added only if it is a
\* duplicate of no stored term, and no term is ever removed.
NoDuplicateFragments ==
    /\ [](\A a, b \in detectedUnknownModels : a # b => ~Duplicates(a, b))
    /\ [][/\ detectedUnknownModels \subseteq detectedUnknownModels'
          /\ \A term \in detectedUnknownModels' \ detectedUnknownModels :
                 \A d \in detectedUnknownModels : ~Duplicates(term, d)]_vars

\* C27 witness: three terms are stored, none of them the second spelling,
\* the suffixed form or the part of the first.
ThreeFragmentsKept ==
    /\ Cardinality(detectedUnknownModels) = 3
    /\ <<"Z", "e", "d">> \in detectedUnknownModels

\* C24: whenever a request of the stats fetch, the usage request or either
\* monthly-invoice request, is answered with status 401 or 403, the handler
\* of updateStats looks up a new token, and retries the fetch when it gets
\* one.
EveryAuthFailureRetried ==
    (calc.op = "fetch-rejected" /\ IsAuthError(calc.axiosError)) => calc.asksNewToken

\* A step in which a cycle suspended at position pc ends.
CycleLeaves(pc) ==
    /\ InFlight' = InFlight - 1
    /\ AtStage(cycles', pc) = AtStage(cycles, pc) - 1

\* A step in which the token lookup at the top of a cycle throws.
ProviderThrowsStep == \E c \in Running : TokenReturns(c, "throws")

\* A step in which the token lookup at the top of a cycle finds no token.
NoTokenStep == \E c \in Running : TokenReturns(c, "absent")

\* C25: every step that ends a cycle in failure adds exactly one to the
\* error count: a failed first fetch, a failed token lookup after a 401/403,
\* a failed retry (two failed fetches, one failure), and a token lookup
\* that throws at the top of the cycle.
EveryFailureCountsOnce ==
    [][(\/ CycleLeaves("fetch")
        \/ CycleLeaves("retoken")
        \/ CycleLeaves("refetch")
        \/ ProviderThrowsStep)
          => consecutiveErrorCount' = consecutiveErrorCount + 1]_vars

\* C25 witness: one cycle has run and failed, nothing was rendered, and the
\* count is one.
FailureCountedOnce ==
    /\ consecutiveErrorCount = 1
    /\ InFlight = 0
    /\ ~initialPending
    /\ display = "initial"
    /\ cooldownStartTime = Null

\* C26: the error count counts fetch failures only: a step that ends a cycle
\* after its stats fetch succeeded (at the usage-based status check or at
\* the rendering steps) does not count a failure.
OnlyFetchFailuresCounted ==
    [][CycleLeaves("usage") \/ CycleLeaves("render")
          => consecutiveErrorCount' <= consecutiveErrorCount]_vars

RefreshedCredentialUsed ==
    \A c \in Running :
        (c.attempts = 2 /\ c.pc \in {"usage", "render"}) => c.credential = "newToken"

\* The requests of a usage-based status check of which one failed.
FailedStatusRequests ==
    {requests \in UsageStatusRequests : requests.status = "fails" \/ ~requests.limit.ok}

\* C30: checkUsageBasedStatus never throws: when the status request or the
\* hard-limit request fails it returns {isEnabled: false} without a limit,
\* and the step in which the check returns, failed or not, takes the cycle
\* on to the rendering steps and leaves the error state as it was.
UsageStatusCheckNeverThrows ==
    [][AtStage(cycles', "usage") < AtStage(cycles, "usage") =>
           /\ \A requests \in UsageStatusRequests :
                  ~checkUsageBasedStatus(requests).rejected
           /\ \A requests \in FailedStatusRequests :
                  checkUsageBasedStatus(requests).value
                      = [isEnabled |-> FALSE, limit |-> Null]
           /\ AtStage(cycles', "render") = AtStage(cycles, "render") + 1
           /\ InFlight' = InFlight
           /\ consecutiveErrorCount' = consecutiveErrorCount
           /\ cooldownStartTime' = cooldownStartTime]_vars

\* C30 witness: after a retried fetch the usage-based status check has
\* returned: the cycle is at its rendering steps and no failure is counted.
StatusCheckReturned ==
    /\ \E c \in Running : c.pc = "render" /\ c.attempts = 2
    /\ consecutiveErrorCount = 0
    /\ display = "initial"

====
